---------------------------- MODULE Spec2Model ----------------------------
(***************************************************************************)
(* pyalint: a command-line wrapper that runs yamllint and actionlint on    *)
(* GitHub Actions workflow files (src/pyalint.py).                         *)
(*                                                                         *)
(* The model follows one run of the script: check_dependencies, argument   *)
(* parsing, load_config, file selection / discovery, the per-file loop     *)
(* (lint_yaml then lint_action, each through run_command) and the final    *)
(* report.  Python strings that the program inspects are sequences of      *)
(* one-character strings; YAML / Python data are tagged records.           *)
(***************************************************************************)
EXTENDS Naturals, Sequences, FiniteSets, TLC

(***************************************************************************)
(* Bounds of the model.                                                    *)
(***************************************************************************)
\* Largest number of entries the workflow directory tree holds.
MaxEntries == 2

(***************************************************************************)
(* Python strings.                                                         *)
(***************************************************************************)
UPPER == <<"A","B","C","D","E","F","G","H","I","J","K","L","M",
           "N","O","P","Q","R","S","T","U","V","W","X","Y","Z">>

LOWER == <<"a","b","c","d","e","f","g","h","i","j","k","l","m",
           "n","o","p","q","r","s","t","u","v","w","x","y","z">>

\* str.lower() on one character.
LowerChar(c) ==
    IF \E i \in 1..Len(UPPER) : UPPER[i] = c
    THEN LOWER[CHOOSE i \in 1..Len(UPPER) : UPPER[i] = c]
    ELSE c

\* str.lower()
Lower(s) == [i \in 1..Len(s) |-> LowerChar(s[i])]

\* Python's  sub in s  on strings.
Contains(s, sub) ==
    \E i \in 1..(Len(s) + 1) :
        /\ i + Len(sub) - 1 <= Len(s)
        /\ SubSeq(s, i, i + Len(sub) - 1) = sub

\* The characters str.strip() removes.
WS == {" ", "\t", "\n", "\r"}

RECURSIVE LStrip(_)
LStrip(s) == IF s # <<>> /\ Head(s) \in WS THEN LStrip(Tail(s)) ELSE s

RECURSIVE RStrip(_)
RStrip(s) ==
    IF s # <<>> /\ s[Len(s)] \in WS THEN RStrip(SubSeq(s, 1, Len(s) - 1)) ELSE s

\* str.strip()
Strip(s) == RStrip(LStrip(s))

\* Python's  s.endswith(suffix)
EndsWith(s, suffix) ==
    /\ Len(suffix) <= Len(s)
    /\ SubSeq(s, Len(s) - Len(suffix) + 1, Len(s)) = suffix

(***************************************************************************)
(* Python / YAML data: None, str, int, list, dict, and datetime.date (a     *)
(* YAML timestamp).                                                        *)
(***************************************************************************)
None == [tag |-> "none"]

Str(s) == [tag |-> "str", s |-> s]

Int(n) == [tag |-> "int", n |-> n]

List(elems) == [tag |-> "list", elems |-> elems]

Date == [tag |-> "date"]

\* A dict; items is a function from its keys to its values.
Dict(items) == [tag |-> "dict", items |-> items]

EmptyDict == Dict(<<>>)

IsDict(v) == v.tag = "dict"

IsStr(v) == v.tag = "str"

\* Python truthiness of a value: bool(v).
Truthy(v) ==
    CASE v.tag = "none" -> FALSE
      [] v.tag = "str"  -> v.s # <<>>
      [] v.tag = "int"  -> v.n # 0
      [] v.tag = "list" -> v.elems # <<>>
      [] v.tag = "dict" -> DOMAIN v.items # {}
      [] v.tag = "date" -> TRUE

\* Whether json.dumps(v) returns; it raises TypeError on a date.
RECURSIVE JsonSerialisable(_)
JsonSerialisable(v) ==
    CASE v.tag = "list" -> \A i \in 1..Len(v.elems) : JsonSerialisable(v.elems[i])
      [] v.tag = "dict" -> \A k \in DOMAIN v.items : JsonSerialisable(v.items[k])
      [] v.tag = "date" -> FALSE
      [] OTHER -> TRUE

\* d.get(key, default) on a dict value d.
Get(d, key, default) ==
    IF key \in DOMAIN d.items THEN d.items[key] ELSE default

(***************************************************************************)
(* json.loads: the standard library's JSON decoder, as far as its validity *)
(* verdict and the truthiness of the decoded value go.  A position past    *)
(* the end of the text reads as the empty string.                          *)
(***************************************************************************)
DIGITS == {"0","1","2","3","4","5","6","7","8","9"}

HEXDIGITS == DIGITS \cup {"a","b","c","d","e","f","A","B","C","D","E","F"}

\* Whitespace the decoder skips between tokens.
JSON_WS == {" ", "\t", "\n", "\r"}

\* Characters allowed after a backslash inside a string literal.
JSON_ESCAPES == {"\"", "\\", "/", "b", "f", "n", "r", "t"}

\* Control characters, which strict decoding rejects inside a string literal.
JSON_CONTROL == {"\t", "\n", "\r"}

At(s, i) == IF i >= 1 /\ i <= Len(s) THEN s[i] ELSE ""

StartsAt(s, i, lit) ==
    /\ i + Len(lit) - 1 <= Len(s)
    /\ SubSeq(s, i, i + Len(lit) - 1) = lit

RECURSIVE SkipWs(_, _)
SkipWs(s, i) == IF At(s, i) \in JSON_WS THEN SkipWs(s, i + 1) ELSE i

RECURSIVE ScanDigits(_, _)
ScanDigits(s, i) == IF At(s, i) \in DIGITS THEN ScanDigits(s, i + 1) ELSE i

JsonFail == [ok |-> FALSE, next |-> 0, truthy |-> FALSE]

JsonOk(next, truthy) == [ok |-> TRUE, next |-> next, truthy |-> truthy]

\* NUMBER_RE: (-?(?:0|[1-9]\d*))(\.\d+)?([eE][-+]?\d+)?  matched greedily at i.
ParseNumber(s, i) ==
    LET j0 == IF At(s, i) = "-" THEN i + 1 ELSE i
        j1 == IF At(s, j0) = "0" THEN j0 + 1 ELSE ScanDigits(s, j0)
        j2 == IF At(s, j1) = "." /\ At(s, j1 + 1) \in DIGITS
              THEN ScanDigits(s, j1 + 1) ELSE j1
        k  == IF At(s, j2 + 1) \in {"+", "-"} THEN j2 + 2 ELSE j2 + 1
        j3 == IF At(s, j2) \in {"e", "E"} /\ At(s, k) \in DIGITS
              THEN ScanDigits(s, k) ELSE j2
    IN  IF j1 = j0 THEN JsonFail
        ELSE JsonOk(j3, \E p \in j0..(j2 - 1) : s[p] \in DIGITS \ {"0"})

\* The index after the closing quote of a string literal whose body starts at
\* j, or 0 when the literal is not terminated or not well formed.
RECURSIVE StrEnd(_, _)
StrEnd(s, j) ==
    LET c == At(s, j) IN
    CASE c = "" -> 0
      [] c = "\"" -> j + 1
      [] c = "\\" ->
            IF At(s, j + 1) \in JSON_ESCAPES THEN StrEnd(s, j + 2)
            ELSE IF At(s, j + 1) = "u" /\ \A d \in 2..5 : At(s, j + d) \in HEXDIGITS
                 THEN StrEnd(s, j + 6)
                 ELSE 0
      [] c \in JSON_CONTROL -> 0
      [] OTHER -> StrEnd(s, j + 1)

ParseString(s, i) ==
    LET e == StrEnd(s, i + 1) IN
    IF e = 0 THEN JsonFail ELSE JsonOk(e, e > i + 2)

RECURSIVE ParseValue(_, _)
RECURSIVE ParseElems(_, _)
RECURSIVE ParseMembers(_, _)

\* scanner.py_make_scanner._scan_once
ParseValue(s, i) ==
    LET c == At(s, i) IN
    CASE c = "\"" -> ParseString(s, i)
      [] c = "[" ->
            LET j == SkipWs(s, i + 1) IN
            IF At(s, j) = "]" THEN JsonOk(j + 1, FALSE) ELSE ParseElems(s, j)
      [] c = "{" ->
            LET j == SkipWs(s, i + 1) IN
            IF At(s, j) = "}" THEN JsonOk(j + 1, FALSE) ELSE ParseMembers(s, j)
      [] c = "n" /\ StartsAt(s, i, <<"n","u","l","l">>) -> JsonOk(i + 4, FALSE)
      [] c = "t" /\ StartsAt(s, i, <<"t","r","u","e">>) -> JsonOk(i + 4, TRUE)
      [] c = "f" /\ StartsAt(s, i, <<"f","a","l","s","e">>) -> JsonOk(i + 5, FALSE)
      [] c \in DIGITS \/ (c = "-" /\ At(s, i + 1) \in DIGITS) -> ParseNumber(s, i)
      [] c = "N" /\ StartsAt(s, i, <<"N","a","N">>) -> JsonOk(i + 3, TRUE)
      [] c = "I" /\ StartsAt(s, i, <<"I","n","f","i","n","i","t","y">>) ->
            JsonOk(i + 8, TRUE)
      [] c = "-" /\ StartsAt(s, i, <<"-","I","n","f","i","n","i","t","y">>) ->
            JsonOk(i + 9, TRUE)
      [] OTHER -> JsonFail

\* decoder.JSONArray, from the first element on.
ParseElems(s, j) ==
    LET v == ParseValue(s, j) IN
    IF ~v.ok THEN JsonFail
    ELSE LET k == SkipWs(s, v.next) IN
         CASE At(s, k) = "," -> ParseElems(s, SkipWs(s, k + 1))
           [] At(s, k) = "]" -> JsonOk(k + 1, TRUE)
           [] OTHER -> JsonFail

\* decoder.JSONObject, from the first key on.
ParseMembers(s, j) ==
    LET e == IF At(s, j) = "\"" THEN StrEnd(s, j + 1) ELSE 0
        k == SkipWs(s, e)
        v == ParseValue(s, SkipWs(s, k + 1))
    IN  IF e = 0 \/ At(s, k) # ":" THEN JsonFail
        ELSE IF ~v.ok THEN JsonFail
        ELSE LET m == SkipWs(s, v.next) IN
             CASE At(s, m) = "," -> ParseMembers(s, SkipWs(s, m + 1))
               [] At(s, m) = "}" -> JsonOk(m + 1, TRUE)
               [] OTHER -> JsonFail

\* json.loads(s): ok is FALSE where it raises JSONDecodeError; truthy is
\* bool() of the decoded value.
JsonLoads(s) ==
    LET v == ParseValue(s, SkipWs(s, 1)) IN
    IF v.ok /\ SkipWs(s, v.next) = Len(s) + 1
    THEN [ok |-> TRUE, truthy |-> v.truthy]
    ELSE [ok |-> FALSE, truthy |-> FALSE]

(***************************************************************************)
(* String constants of the program.                                        *)
(***************************************************************************)
S_yamllint == <<"y","a","m","l","l","i","n","t">>

S_actionlint == <<"a","c","t","i","o","n","l","i","n","t">>

S_d == <<"-","d">>

S_format_json == <<"-","f","o","r","m","a","t","=","j","s","o","n">>

S_verbose == <<"-","v","e","r","b","o","s","e">>

S_error == <<"e","r","r","o","r">>

\* The prefix of the string run_command returns when the launch raises.
S_ErrorPrefix == <<"E","r","r","o","r",":"," ">>

S_yml == <<".","y","m","l">>

S_yaml == <<".","y","a","m","l">>

S_disable == <<"d","i","s","a","b","l","e">>

DEFAULT_CONFIG ==
    Dict([yamllint   |-> Dict([rules |-> Dict(("line-length" :> Str(S_disable)))]),
          actionlint |-> Dict([flags |-> List(<<>>)])])

(***************************************************************************)
(* The environment of a run: the command line, the configuration file, the *)
(* file system and the two linter processes.  Each is read by the step     *)
(* that reads it in the program.                                           *)
(***************************************************************************)
\* Paths that may be named with -f, and what the file system holds there.
P_missing == <<"n","o",".","y","m","l">>

P_dir == <<"d","i","r">>

P_file == <<"w","f",".","y","m","l">>

P_config == <<"c",".","y","m","l">>

\* Path(p).exists(); Path("") is the current directory.
PathExists(p) == p \in {<<>>, P_dir, P_file}

\* Path(p).is_file()
PathIsFile(p) == p = P_file

FileArgs == {None, Str(<<>>), Str(P_missing), Str(P_dir), Str(P_file)}

ConfigArgs == {None, Str(<<>>), Str(P_config)}

\* The namespaces parse_args can return.
ArgSpace ==
    [debug : BOOLEAN, verbose : BOOLEAN, json : BOOLEAN,
     file : FileArgs, config : ConfigArgs]

\* Sections a configuration document may give for the key yamllint.
YamlSections ==
    { Dict([rules |-> Dict(("indentation" :> Str(S_disable)))]),
      EmptyDict,
      None,
      Dict([rules |-> List(<<>>)]) }

\* Sections a configuration document may give for the key actionlint.
ActionSections ==
    { Dict([flags |-> List(<<Str(<<"-","c">>)>>)]),
      None,
      Dict([flags |-> None]),
      Dict([flags |-> List(<<Int(1)>>)]) }

\* Top-level mappings: each of the two keys is absent or takes one of the
\* sections above; or the document holds a key the program does not know.
ConfigMappings ==
    { Dict(y @@ a) :
        y \in {<<>>} \cup { ("yamllint" :> v) : v \in YamlSections },
        a \in {<<>>} \cup { ("actionlint" :> v) : v \in ActionSections } }
    \cup { Dict(("other" :> v)) : v \in {Str(<<"x">>), Date} }

\* What open() and yaml.safe_load() make of the configuration file: open
\* raises, the parser raises, or the document loads as some value.
ConfigFiles ==
    { [status |-> "unreadable"], [status |-> "malformed"] }
    \cup { [status |-> "ok", value |-> v] :
             v \in ConfigMappings \cup {None, List(<<>>), Str(<<"x">>)} }

\* The configuration files that decide the course of a run: one that does
\* not load, one the debug dump cannot print, and mappings whose sections
\* lint_yaml and lint_action accept, reject, or pass on to the command.
FlowConfigFiles ==
    { [status |-> "malformed"] }
    \cup { [status |-> "ok", value |-> Dict(items)] :
             items \in { ("other" :> Date),
                         ("yamllint" :> None),
                         ("actionlint" :> None),
                         ("actionlint" :> Dict([flags |-> None])),
                         ("actionlint" :> Dict([flags |-> List(<<Int(1)>>)])),
                         ("actionlint" :> Dict([flags |-> List(<<Str(<<"-","c">>)>>)])) } }

\* Command lines without -f.
OutputsArgSpace ==
    [debug : {FALSE}, verbose : BOOLEAN, json : BOOLEAN,
     file : {None}, config : {None, Str(P_config)}]

\* Two configuration files: one whose flags are passed on to the actionlint
\* command and cannot be part of a command line, one whose actionlint section
\* is empty.
OutputsConfigFiles ==
    { [status |-> "ok", value |-> Dict(("actionlint" :> v))] :
         v \in { Dict([flags |-> List(<<Int(1)>>)]), None } }

\* Command lines that vary -c and -d.
ConfigArgSpace ==
    [debug : BOOLEAN, verbose : {FALSE}, json : {FALSE},
     file : {None, Str(P_file)}, config : ConfigArgs]

\* Entries that may exist under .github/workflows: a path, and whether it
\* is a directory rather than a regular file.
Entry(path, is_dir) == [path |-> path, is_dir |-> is_dir]

EntryUniverse ==
    { Entry(<<"a",".","y","m","l">>, FALSE),
      Entry(<<"b",".","y","a","m","l">>, FALSE),
      Entry(<<"d",".","y","m","l">>, TRUE),
      Entry(<<"n",".","t","x","t">>, FALSE) }

\* The workflow directory: absent, or a tree holding some entries.
Listings ==
    { [exists |-> FALSE, entries |-> {}] }
    \cup { [exists |-> TRUE, entries |-> es] :
             es \in { x \in SUBSET EntryUniverse : Cardinality(x) <= MaxEntries } }

SmallListings == { l \in Listings : Cardinality(l.entries) <= 1 }

\* A linter process as subprocess.run sees it: it cannot be started, it
\* exits 0, or it exits nonzero.
Proc(kind, stdout, stderr) == [kind |-> kind, stdout |-> stdout, stderr |-> stderr]

\* The process was not started: msg is str(e) of the exception.
ProcOSError(msg) == [kind |-> "oserror", msg |-> msg]

NoProc == [kind |-> "none"]

YamllintProcs ==
    { Proc("exit0", <<>>, <<>>),
      Proc("exit0", <<"w","a","r","n">>, <<>>),
      Proc("exit0", <<>>, <<"e","r","r","o","r">>),
      Proc("exit0", <<"e","r","r","o","r","s",".","y","m","l">>, <<>>),
      Proc("nonzero", <<"1",":"," ","e","r","r","o","r">>, <<>>),
      Proc("nonzero", <<>>, <<"E","R","R","O","R">>),
      Proc("nonzero", <<"E","r">>, <<"r","O","r">>),
      Proc("nonzero", <<"e","r","r">>, <<"!">>),
      ProcOSError(<<"x">>) }

\* A yamllint that passes, and one that reports.
FlowYamllintProcs ==
    { Proc("exit0", <<>>, <<>>),
      Proc("nonzero", <<"1",":"," ","e","r","r","o","r">>, <<>>) }

\* An actionlint that passes in text mode, one that passes in JSON mode, and
\* one that reports in both.
FlowActionlintProcs ==
    { Proc("exit0", <<>>, <<>>),
      Proc("exit0", <<"[","]">>, <<>>),
      Proc("nonzero", <<"[","0","]">>, <<>>) }

ActionlintProcs ==
    { Proc("exit0", <<>>, <<>>),
      Proc("exit0", <<" ","\n">>, <<>>),
      Proc("exit0", <<>>, <<"x">>),
      Proc("exit0", <<"[","]">>, <<>>),
      Proc("exit0", <<"[","]","\n">>, <<>>),
      Proc("exit0", <<"n","u","l","l">>, <<>>),
      Proc("nonzero", <<"[","{","\"","a","\"",":","\"","b","\"","}","]">>, <<>>),
      Proc("nonzero", <<"[","0","]">>, <<>>),
      Proc("nonzero", <<"\"","a","\"">>, <<>>),
      Proc("nonzero", <<"x">>, <<"\n">>),
      Proc("nonzero", <<"[","]">>, <<"x">>),
      Proc("nonzero", <<"[">>, <<>>),
      ProcOSError(<<"x">>) }

(***************************************************************************)
(* The functions of the program.                                           *)
(***************************************************************************)
\* Variant: a merge that also merges the sections of a key both dicts hold.
MergeDeep(d, u) ==
    Dict([k \in DOMAIN d.items \cup DOMAIN u.items |->
            IF k \in DOMAIN u.items
            THEN IF k \in DOMAIN d.items /\ IsDict(d.items[k]) /\ IsDict(u.items[k])
                 THEN Dict([j \in DOMAIN d.items[k].items \cup DOMAIN u.items[k].items |->
                              IF j \in DOMAIN u.items[k].items
                              THEN u.items[k].items[j] ELSE d.items[k].items[j]])
                 ELSE u.items[k]
            ELSE d.items[k]])

\* {**d, **u} for two dicts: the keys of u replace those of d.
Merge(d, u) ==
    Dict([k \in DOMAIN d.items \cup DOMAIN u.items |->
            IF k \in DOMAIN u.items THEN u.items[k] ELSE d.items[k]])

\* Variant: an empty document is read as an empty mapping (safe_load(f) or {}).
LoadConfigEmptyAsMapping(config_path, f) ==
    IF Truthy(config_path)
    THEN IF f.status = "ok" /\ (IsDict(f.value) \/ f.value = None)
         THEN [config |-> Merge(DEFAULT_CONFIG, IF f.value = None THEN EmptyDict ELSE f.value),
               warned |-> FALSE]
         ELSE [config |-> DEFAULT_CONFIG, warned |-> TRUE]
    ELSE [config |-> DEFAULT_CONFIG, warned |-> FALSE]

\* load_config(config_path) when the file at config_path is f.  Unpacking a
\* value that is no mapping raises TypeError, caught with the rest.
LoadConfigResult(config_path, f) ==
    IF Truthy(config_path)
    THEN IF f.status = "ok" /\ IsDict(f.value)
         THEN [config |-> Merge(DEFAULT_CONFIG, f.value), warned |-> FALSE]
         ELSE [config |-> DEFAULT_CONFIG, warned |-> TRUE]
    ELSE [config |-> DEFAULT_CONFIG, warned |-> FALSE]

\* Variant: only the first tool is looked up.
MissingToolsFirstOnly(found) ==
    SelectSeq(<<"yamllint">>, LAMBDA tool : ~found[tool])

\* check_dependencies: the tools shutil.which does not find, in order.
MissingTools(found) ==
    SelectSeq(<<"yamllint", "actionlint">>, LAMBDA tool : ~found[tool])

\* The orders in which a directory walk may yield a set of paths.
Orders(S) ==
    { q \in [1..Cardinality(S) -> S] : \A i, j \in 1..Cardinality(S) : i # j => q[i] # q[j] }

\* Path(directory).rglob("*" + ext): every entry whose name ends in ext.
RGlob(listing, ext) == { e.path : e \in { x \in listing.entries : EndsWith(x.path, ext) } }

\* find_workflow_files: the lists it may return for a directory tree.
FindWorkflowFiles(listing) ==
    { ymls \o yamls : ymls \in Orders(RGlob(listing, S_yml)),
                      yamls \in Orders(RGlob(listing, S_yaml)) }

\* subprocess.run raises TypeError before starting anything when an
\* argument is not a string.
CanLaunch(command) == \A i \in 1..Len(command) : IsStr(command[i])

\* Variant: a nonzero exit returns stdout alone.
RunResultStdoutOnly(command, verbose, proc) ==
    IF ~CanLaunch(command)
    THEN [outcome |-> "launch_failed", out |-> S_ErrorPrefix \o <<"T">>, proc |-> NoProc]
    ELSE CASE proc.kind = "exit0" ->
                [outcome |-> "ok", out |-> proc.stdout, proc |-> proc]
           [] proc.kind = "nonzero" ->
                [outcome |-> "nonzero", out |-> proc.stdout, proc |-> proc]
           [] proc.kind = "oserror" ->
                [outcome |-> "launch_failed", out |-> S_ErrorPrefix \o proc.msg, proc |-> proc]

\* run_command(command, verbose) when the process behaves as proc: the
\* string returned and the path taken through the try statement.
RunResult(command, verbose, proc) ==
    IF ~CanLaunch(command)
    THEN [outcome |-> "launch_failed", out |-> S_ErrorPrefix \o <<"T">>, proc |-> NoProc]
    ELSE CASE proc.kind = "exit0" ->
                [outcome |-> "ok", out |-> proc.stdout, proc |-> proc]
           [] proc.kind = "nonzero" ->
                [outcome |-> "nonzero", out |-> proc.stdout \o proc.stderr, proc |-> proc]
           [] proc.kind = "oserror" ->
                [outcome |-> "launch_failed", out |-> S_ErrorPrefix \o proc.msg, proc |-> proc]

\* lint_yaml: the text of the -d argument, an f-string over the rules; kept
\* as the rules it serialises.
InlineConfig(rules) == [tag |-> "str", extends |-> "default", rules |-> rules.items]

\* lint_yaml raises AttributeError when the yamllint section, or its rules,
\* is not a mapping.
LintYamlRaises(config) ==
    LET section == Get(config, "yamllint", EmptyDict) IN
    \/ ~IsDict(section)
    \/ ~IsDict(Get(section, "rules", EmptyDict))

\* lint_yaml: the command it builds.
YamllintCmd(file_path, config) ==
    LET rules == Get(Get(config, "yamllint", EmptyDict), "rules", EmptyDict) IN
    << Str(S_yamllint), Str(S_d), InlineConfig(rules), Str(file_path) >>

\* What list.extend(v) appends, for the values it can iterate over.
Iterable(v) == v.tag \in {"list", "str", "dict"}

RECURSIVE SetToSeq(_)
SetToSeq(S) ==
    IF S = {} THEN <<>>
    ELSE LET x == CHOOSE y \in S : TRUE IN <<x>> \o SetToSeq(S \ {x})

Elements(v) ==
    CASE v.tag = "list" -> v.elems
      [] v.tag = "str"  -> [i \in 1..Len(v.s) |-> Str(<<v.s[i]>>)]
      [] v.tag = "dict" -> LET keys == SetToSeq(DOMAIN v.items)
                           IN  [i \in 1..Len(keys) |-> Str(<<keys[i]>>)]

\* lint_action raises AttributeError when the actionlint section is not a
\* mapping, TypeError when its flags cannot be iterated.
LintActionRaises(config) ==
    LET section == Get(config, "actionlint", EmptyDict) IN
    \/ ~IsDict(section)
    \/ ~Iterable(Get(section, "flags", List(<<>>)))

\* lint_action: the command it builds.
ActionlintCmd(file_path, config, verbose, json_output) ==
    LET flags == Get(Get(config, "actionlint", EmptyDict), "flags", List(<<>>)) IN
    << Str(S_actionlint) >>
    \o (IF json_output THEN << Str(S_format_json) >>
        ELSE IF verbose THEN << Str(S_verbose) >> ELSE <<>>)
    \o Elements(flags)
    \o << Str(file_path) >>

\* Variant: the search without lower().
YamlFailedCaseSensitive(yamllint_output) == Contains(yamllint_output, S_error)

\* main: "error" in yamllint_output.lower()
YamlFailed(yamllint_output) == Contains(Lower(yamllint_output), S_error)

\* Variant: output that does not parse is let through.
ActionFailedIgnoreInvalid(json, actionlint_output) ==
    IF json
    THEN LET parsed == JsonLoads(actionlint_output) IN
         IF parsed.ok THEN parsed.truthy ELSE FALSE
    ELSE Strip(actionlint_output) # <<>>

\* main: the classification of actionlint's output, by mode.
ActionFailed(json, actionlint_output) ==
    IF json
    THEN LET parsed == JsonLoads(actionlint_output) IN
         IF parsed.ok THEN parsed.truthy ELSE TRUE
    ELSE Strip(actionlint_output) # <<>>

\* main: how a classification enters has_errors.
Accumulate(flag, failed) == IF failed THEN TRUE ELSE flag

(***************************************************************************)
(* The state of a run.                                                     *)
(***************************************************************************)
VARIABLES
    pc,                \* the statement the script is at
    found,             \* what shutil.which answered for each tool
    missing,           \* check_dependencies: missing
    args,              \* main: args
    config_file,       \* the configuration file as load_config read it
    config,            \* main: config
    listing,           \* the workflow directory as main found it
    files_to_check,    \* main: files_to_check
    idx,               \* position of the for loop in files_to_check
    has_errors,        \* main: has_errors
    yamllint_output,   \* main: yamllint_output
    actionlint_output, \* main: actionlint_output
    exit_code,         \* the exit status of the process, once pc = "done"
    printed,           \* the status messages printed, in order
    traceback,         \* the function an uncaught exception was raised in
    log,               \* history: the calls of run_command, in order
    last,              \* history: the latest call's process, path and verdict
    failSeen,          \* history: some output was classified as a failure
    yamlErrSeen        \* history: some yamllint output held the word "error"

vars == << pc, found, missing, args, config_file, config, listing,
           files_to_check, idx, has_errors, yamllint_output,
           actionlint_output, exit_code, printed, traceback, log, last,
           failSeen, yamlErrSeen >>

\* The word "error" in any letter-casing, somewhere in s.
HasErrorWord(s) ==
    \E i \in 1..Len(s) :
        /\ i + 4 <= Len(s)
        /\ s[i] \in {"e", "E"}
        /\ s[i + 1] \in {"r", "R"}
        /\ s[i + 2] \in {"r", "R"}
        /\ s[i + 3] \in {"o", "O"}
        /\ s[i + 4] \in {"r", "R"}

Init ==
    /\ pc = "check_dependencies"
    /\ found = None
    /\ missing = <<>>
    /\ args = None
    /\ config_file = None
    /\ config = None
    /\ listing = None
    /\ files_to_check = <<>>
    /\ idx = 0
    /\ has_errors = FALSE
    /\ yamllint_output = <<>>
    /\ actionlint_output = <<>>
    /\ exit_code = 0
    /\ printed = <<>>
    /\ traceback = "none"
    /\ log = <<>>
    /\ last = [outcome |-> "none", proc |-> NoProc, failed |-> FALSE]
    /\ failSeen = FALSE
    /\ yamlErrSeen = FALSE

\* sys.exit(code) / return code from main, after printing message.
Exit(code, message) ==
    /\ pc' = "done"
    /\ exit_code' = code
    /\ printed' = Append(printed, message)

\* An exception no handler catches: the interpreter prints the traceback
\* and the process ends with status 1.
Uncaught(where) ==
    /\ pc' = "done"
    /\ exit_code' = 1
    /\ traceback' = where
    /\ printed' = Append(printed, "traceback")

\* __main__: check_dependencies()
CheckDependencies ==
    /\ pc = "check_dependencies"
    /\ \E f \in [{"yamllint", "actionlint"} -> BOOLEAN] :
          /\ found' = f
          /\ missing' = MissingTools(f)
          /\ IF MissingTools(f) # <<>>
             THEN Exit(1, "missing_tools")
             ELSE /\ pc' = "parse_args"
                  /\ UNCHANGED << exit_code, printed >>
    /\ UNCHANGED << args, config_file, config, listing, files_to_check, idx,
                    has_errors, yamllint_output, actionlint_output, traceback,
                    log, last, failSeen, yamlErrSeen >>

\* main: parser.parse_args()
ParseArgs(argSpace) ==
    /\ pc = "parse_args"
    /\ \E a \in argSpace : args' = a
    /\ pc' = "load_config"
    /\ UNCHANGED << found, missing, config_file, config, listing,
                    files_to_check, idx, has_errors, yamllint_output,
                    actionlint_output, exit_code, printed, traceback, log,
                    last, failSeen, yamlErrSeen >>

\* main: config = load_config(args.config), the debug dump (json.dumps
\* raises on a value it cannot serialise), and the two initialisations
\* before the file selection.
LoadConfig(configFiles) ==
    /\ pc = "load_config"
    /\ \E f \in (IF Truthy(args.config) THEN configFiles ELSE {None}) :
          LET r == LoadConfigResult(args.config, f)
              warning == IF r.warned THEN <<"config_warning">> ELSE <<>>
          IN  /\ config_file' = f
              /\ config' = r.config
              /\ IF args.debug /\ ~JsonSerialisable(r.config)
                 THEN /\ printed' = printed \o warning \o <<"traceback">>
                      /\ traceback' = "main"
                      /\ exit_code' = 1
                      /\ pc' = "done"
                      /\ UNCHANGED << files_to_check, has_errors >>
                 ELSE /\ printed' = printed \o warning
                            \o (IF args.debug THEN <<"configuration">> ELSE <<>>)
                      /\ files_to_check' = <<>>
                      /\ has_errors' = FALSE
                      /\ pc' = "select_files"
                      /\ UNCHANGED << traceback, exit_code >>
    /\ UNCHANGED << found, missing, args, listing, idx, yamllint_output,
                    actionlint_output, log, last, failSeen, yamlErrSeen >>

\* main: enter the for loop over a non-empty files_to_check.
StartLoop(files) ==
    /\ files_to_check' = files
    /\ idx' = 1
    /\ pc' = "lint_yaml"
    /\ UNCHANGED << exit_code, printed >>

\* main: the choice of the files, with its three early returns.
SelectFiles(listings) ==
    /\ pc = "select_files"
    /\ IF Truthy(args.file)
       THEN /\ listing' = listing
            /\ IF ~PathExists(args.file.s) \/ ~PathIsFile(args.file.s)
               THEN /\ Exit(1, "file_not_found")
                    /\ UNCHANGED << files_to_check, idx >>
               ELSE StartLoop(<< args.file.s >>)
       ELSE \E l \in listings :
              /\ listing' = l
              /\ IF ~l.exists
                 THEN /\ Exit(0, "dir_not_found")
                      /\ UNCHANGED << files_to_check, idx >>
                 ELSE \E files \in FindWorkflowFiles(l) :
                        IF files = <<>>
                        THEN /\ Exit(0, "no_files")
                             /\ files_to_check' = files
                             /\ UNCHANGED idx
                        ELSE StartLoop(files)
    /\ UNCHANGED << found, missing, args, config_file, config, has_errors,
                    yamllint_output, actionlint_output, traceback, log, last,
                    failSeen, yamlErrSeen >>

\* main, loop body, first half: lint_yaml and its classification.
LintYaml(procs) ==
    /\ pc = "lint_yaml"
    /\ LET file == files_to_check[idx] IN
       IF LintYamlRaises(config)
       THEN /\ Uncaught("lint_yaml")
            /\ UNCHANGED << has_errors, yamllint_output, log, last, failSeen,
                            yamlErrSeen >>
       ELSE \E proc \in procs :
              LET cmd == YamllintCmd(file, config)
                  r == RunResult(cmd, args.verbose \/ args.debug, proc)
                  failed == YamlFailed(r.out)
              IN  /\ yamllint_output' = r.out
                  /\ has_errors' = Accumulate(has_errors, failed)
                  /\ log' = Append(log, [tool |-> "yamllint", file |-> file, cmd |-> cmd])
                  /\ last' = [outcome |-> r.outcome, proc |-> r.proc, failed |-> failed]
                  /\ failSeen' = (failSeen \/ failed)
                  /\ yamlErrSeen' = (yamlErrSeen \/ HasErrorWord(r.out))
                  /\ pc' = "lint_action"
                  /\ UNCHANGED << exit_code, printed, traceback >>
    /\ UNCHANGED << found, missing, args, config_file, config, listing,
                    files_to_check, idx, actionlint_output >>

\* main, loop body, second half: lint_action and its classification, then
\* the next file or the end of the loop.
LintAction(procs) ==
    /\ pc = "lint_action"
    /\ LET file == files_to_check[idx] IN
       IF LintActionRaises(config)
       THEN /\ Uncaught("lint_action")
            /\ UNCHANGED << has_errors, actionlint_output, log, last,
                            failSeen, idx >>
       ELSE \E proc \in procs :
              LET cmd == ActionlintCmd(file, config, args.verbose \/ args.debug, args.json)
                  r == RunResult(cmd, args.verbose \/ args.debug, proc)
                  failed == ActionFailed(args.json, r.out)
              IN  /\ actionlint_output' = r.out
                  /\ has_errors' = Accumulate(has_errors, failed)
                  /\ log' = Append(log, [tool |-> "actionlint", file |-> file, cmd |-> cmd])
                  /\ last' = [outcome |-> r.outcome, proc |-> r.proc, failed |-> failed]
                  /\ failSeen' = (failSeen \/ failed)
                  /\ IF idx < Len(files_to_check)
                     THEN idx' = idx + 1 /\ pc' = "lint_yaml"
                     ELSE idx' = idx /\ pc' = "report"
                  /\ UNCHANGED << exit_code, printed, traceback >>
    /\ UNCHANGED << found, missing, args, config_file, config, listing,
                    files_to_check, yamllint_output, yamlErrSeen >>

\* main: the final message and the return value, which __main__ passes to
\* sys.exit.
Report ==
    /\ pc = "report"
    /\ IF has_errors THEN Exit(1, "completed_with_errors")
                     ELSE Exit(0, "completed_successfully")
    /\ UNCHANGED << found, missing, args, config_file, config, listing,
                    files_to_check, idx, has_errors, yamllint_output,
                    actionlint_output, traceback, log, last, failSeen,
                    yamlErrSeen >>

(***************************************************************************)
(* Specifications.  Every one runs the whole script from the same initial  *)
(* state; they differ in the range of the environment.                     *)
(***************************************************************************)
\* Any command line, the configuration files that change the course of the
\* run, any workflow directory, and linters that pass or report.
Next ==
    \/ CheckDependencies
    \/ ParseArgs(ArgSpace)
    \/ LoadConfig(FlowConfigFiles)
    \/ SelectFiles(Listings)
    \/ LintYaml(FlowYamllintProcs)
    \/ LintAction(FlowActionlintProcs)
    \/ Report

Spec == Init /\ [][Next]_vars

\* Any behaviour of the two linter processes, in text and in JSON mode, over
\* any workflow directory, with the default configuration, one whose
\* actionlint command cannot be started, or one lint_action cannot read.
NextOutputs ==
    \/ CheckDependencies
    \/ ParseArgs(OutputsArgSpace)
    \/ LoadConfig(OutputsConfigFiles)
    \/ SelectFiles(Listings)
    \/ LintYaml(YamllintProcs)
    \/ LintAction(ActionlintProcs)
    \/ Report

SpecOutputs == Init /\ [][NextOutputs]_vars

\* Any configuration file, with and without -c, over a workflow directory of
\* at most one entry.
NextConfig ==
    \/ CheckDependencies
    \/ ParseArgs(ConfigArgSpace)
    \/ LoadConfig(ConfigFiles)
    \/ SelectFiles(SmallListings)
    \/ LintYaml(FlowYamllintProcs)
    \/ LintAction(FlowActionlintProcs)
    \/ Report

SpecConfig == Init /\ [][NextConfig]_vars

(***************************************************************************)
(* Properties.                                                             *)
(***************************************************************************)
Tools == {"yamllint", "actionlint"}

\* The latest call of run_command, and the string it returned.
LastCall == log[Len(log)]

NonBlank(s) == \E i \in 1..Len(s) : s[i] \notin WS

\* C1: when at least one file is linted, the exit code is 1 exactly when some
\* yamllint or actionlint output was classified as a failure; the flag
\* has_errors is never reset once a failure set it; and the exit code is
\* produced only after both linters ran on every file of files_to_check.
C1_ExitCodeReflectsFailures ==
    /\ failSeen => has_errors
    /\ (pc = "done" /\ log # <<>>) =>
          /\ exit_code = 1 <=> failSeen
          /\ Len(log) = 2 * Len(files_to_check)

\* C2: when shutil.which misses yamllint or actionlint, the process has
\* exited with status 1 and nothing else has happened: no arguments parsed,
\* no configuration loaded, no directory read, no file chosen, no linter run.
C2_MissingToolExitsFirst ==
    (found # None /\ \E tool \in Tools : ~found[tool]) =>
        /\ pc = "done"
        /\ exit_code = 1
        /\ args = None
        /\ config_file = None
        /\ config = None
        /\ listing = None
        /\ files_to_check = <<>>
        /\ log = <<>>

\* C2 witness: actionlint alone is missing and the process has exited.
C2_Witness ==
    /\ found # None
    /\ found["yamllint"]
    /\ ~found["actionlint"]
    /\ pc = "done"
    /\ printed = <<"missing_tools">>

\* The path given with -f is not an existing regular file.
ExplicitFileUnusable ==
    /\ args # None
    /\ args.file # None
    /\ ~(PathExists(args.file.s) /\ PathIsFile(args.file.s))

\* C3: with -f naming a path that does not exist or is not a regular file,
\* no linter is ever run and the process exits with status 1.
C3_UnusableExplicitFileExits1 ==
    ExplicitFileUnusable =>
        /\ log = <<>>
        /\ pc = "done" => exit_code = 1

\* The workflow directory was looked at, without -f, and is absent or holds no
\* regular file named *.yml or *.yaml.
NoWorkflowFiles ==
    /\ args # None
    /\ args.file = None
    /\ listing # None
    /\ \/ ~listing.exists
       \/ ~\E e \in listing.entries :
              ~e.is_dir /\ (EndsWith(e.path, S_yml) \/ EndsWith(e.path, S_yaml))

\* C4: without -f, when the workflow directory is absent or holds no .yml or
\* .yaml file, the program has printed a warning and exited with status 0,
\* and no linter has been run.
C4_NoWorkflowFilesExits0 ==
    NoWorkflowFiles =>
        /\ pc = "done"
        /\ exit_code = 0
        /\ printed[Len(printed)] \in {"dir_not_found", "no_files"}
        /\ log = <<>>

\* The configuration file named with -c loaded as a mapping.
DocumentLoaded ==
    /\ config # None
    /\ Truthy(args.config)
    /\ config_file.status = "ok"
    /\ IsDict(config_file.value)

\* C5: when the configuration document loads as a mapping, each of the keys
\* yamllint and actionlint that it lacks keeps the default's value, and every
\* key it holds has exactly the document's value (nothing merged into it).
C5_ShallowMerge ==
    DocumentLoaded =>
        /\ \A k \in Tools :
              k \notin DOMAIN config_file.value.items =>
                  /\ k \in DOMAIN config.items
                  /\ config.items[k] = DEFAULT_CONFIG.items[k]
        /\ \A k \in DOMAIN config_file.value.items :
              /\ k \in DOMAIN config.items
              /\ config.items[k] = config_file.value.items[k]

\* C5 witness: a document with rules for yamllint and no actionlint key.
C5_Witness ==
    /\ DocumentLoaded
    /\ DOMAIN config_file.value.items = {"yamllint"}
    /\ IsDict(config_file.value.items["yamllint"])
    /\ config_file.value.items["yamllint"] # DEFAULT_CONFIG.items["yamllint"]
    /\ pc = "select_files"

\* The file named with -c was read and did not load as a mapping.
LoadFailed(file) ==
    /\ file # None
    /\ ~(file.status = "ok" /\ IsDict(file.value))

\* C6: when the configuration file cannot be read or parsed, or loading it
\* fails in any other way, load_config returns exactly DEFAULT_CONFIG, the
\* warning is printed, and the run goes on to the file selection.
C6_FailedLoadFallsBack ==
    [][ (pc = "load_config" /\ LoadFailed(config_file')) =>
            /\ config' = DEFAULT_CONFIG
            /\ pc' = "select_files"
            /\ printed' = printed \o <<"config_warning">>
                    \o (IF args.debug THEN <<"configuration">> ELSE <<>>) ]_vars

\* C6 witness: a malformed file was read and the run is at the selection.
C6_Witness ==
    /\ config_file # None
    /\ config_file.status = "malformed"
    /\ config = DEFAULT_CONFIG
    /\ printed = <<"config_warning">>
    /\ pc = "select_files"

\* C7: once a yamllint output held the word "error", in any letter-casing,
\* has_errors is set, and the process, when it exits, exits with status 1.
C7_YamlErrorWordFailsRun ==
    yamlErrSeen =>
        /\ has_errors
        /\ pc = "done" => exit_code = 1

\* C7 witness: one file; yamllint printed the word in a casing other than
\* lower case, actionlint printed nothing, and the run ended.
C7_Witness ==
    /\ pc = "done"
    /\ Len(files_to_check) = 1
    /\ Len(log) = 2
    /\ yamlErrSeen
    /\ ~Contains(yamllint_output, S_error)
    /\ ~args.json
    /\ actionlint_output = <<>>
    /\ exit_code = 1

\* Outputs that are valid JSON and decode to a non-empty array or string.
ValidNonEmptyJson ==
    { <<"[","{","\"","a","\"",":","\"","b","\"","}","]">>,
      <<"[","0","]">>,
      <<"\"","a","\"">> }

\* Outputs that are not JSON.
InvalidJson ==
    { <<>>, <<" ","\n">>, <<"x","\n">>, <<"[","]","x">>, <<"[">>,
      S_ErrorPrefix \o <<"x">>, S_ErrorPrefix \o <<"T">> }

\* C8: the verdict on actionlint's output.  In JSON mode [] is a success,
\* valid non-empty JSON a failure, text that is not JSON a failure; in text
\* mode the output is a failure exactly when it is not blank.  A failure
\* sets has_errors.
C8_ActionlintClassification ==
    (log # <<>> /\ LastCall.tool = "actionlint") =>
        /\ (args.json /\ actionlint_output = <<"[","]">>) => ~last.failed
        /\ (args.json /\ actionlint_output \in ValidNonEmptyJson) => last.failed
        /\ (args.json /\ actionlint_output \in InvalidJson) => last.failed
        /\ ~args.json => (last.failed <=> NonBlank(actionlint_output))
        /\ last.failed => has_errors

\* C8 witness: JSON mode, output that is not JSON, classified as a failure,
\* and the run went on to its report.
C8_Witness ==
    /\ log # <<>>
    /\ LastCall.tool = "actionlint"
    /\ args.json
    /\ actionlint_output = <<"[">>
    /\ last.failed
    /\ pc = "report"

C10_OneCallPerToolPerFile ==
    /\ Len(log) <= 2 * Len(files_to_check)
    /\ \A k \in 1..Len(log) :
          /\ log[k].file = files_to_check[(k + 1) \div 2]
          /\ log[k].tool = (IF k % 2 = 1 THEN "yamllint" ELSE "actionlint")
          /\ log[k].cmd[1] = Str(IF k % 2 = 1 THEN S_yamllint ELSE S_actionlint)
          /\ log[k].cmd[Len(log[k].cmd)] = Str(log[k].file)
    /\ (pc = "done" /\ files_to_check # <<>>) => Len(log) = 2 * Len(files_to_check)

=============================================================================
